---- MODULE Spec2Model ----
(***************************************************************************)
(* Model of go-bedrockping: the unconnected ping/pong codec                *)
(* (WriteUnconnectedPing, ReadUTFString, ReadUnconnectedPong) and the      *)
(* Query orchestration (socket, deadline, resend goroutine, receive).      *)
(*                                                                         *)
(* Bytes are integers 0..255, strings and byte slices are sequences of     *)
(* bytes.  A uint64 is kept as four 16-bit limbs, most significant first,  *)
(* so that 64-bit values stay exact.  Errors are strings, "nil" is no      *)
(* error.                                                                  *)
(***************************************************************************)
EXTENDS Integers, Sequences, FiniteSets, TLC

Min(a, b) == IF a <= b THEN a ELSE b

\* make([]byte, n): n zero bytes.
Zeros(n) == [i \in 1..n |-> 0]

Take(s, k) == SubSeq(s, 1, k)
Drop(s, k) == SubSeq(s, k + 1, Len(s))

(***************************************************************************)
(* Program constants.                                                      *)
(***************************************************************************)
offlineMessageDataID ==
    <<0, 255, 255, 0, 254, 254, 254, 254, 253, 253, 253, 253, 18, 52, 86, 120>>

PingID == 1
PongID == 28
Semicolon == 59
MagicLen == 16
MinTokens == 6

\* bufio.NewReader's buffer size, the smallest size bufio allows, and the
\* number of empty reads bufio's fill tolerates.
defaultBufSize == 4096
minReadBufferSize == 16
maxConsecutiveEmptyReads == 100

(***************************************************************************)
(* Readers.  A reader is a record                                          *)
(*   kind    "bufio" (a *bufio.Reader) or "raw" (the source itself)        *)
(*   size    the bufio buffer's size                                       *)
(*   buf     the bufio buffer's unread bytes                               *)
(*   src     what the source will still deliver, as a sequence of chunks   *)
(*   srckind "stream": a Read returns at most the rest of the first chunk  *)
(*             and keeps what did not fit (bytes.Buffer is one chunk);     *)
(*           "dgram": a Read returns one datagram, cut to the length asked *)
(*             for, and the rest of the datagram is dropped (net.UDPConn)  *)
(*   starved TRUE once a Read found the source empty: EOF for a stream,    *)
(*           for a datagram socket the read blocks until the deadline and  *)
(*           fails with a timeout                                          *)
(***************************************************************************)
SrcEmptyErr(r) == IF r.srckind = "stream" THEN "EOF" ELSE "timeout"

\* One Read(p) on the source, len(p) = n.
SrcRead(r, n) ==
    IF n = 0 THEN [data |-> <<>>, err |-> "nil", r |-> r]
    ELSE IF r.src = <<>>
    THEN [data |-> <<>>, err |-> SrcEmptyErr(r), r |-> [r EXCEPT !.starved = TRUE]]
    ELSE LET c == Head(r.src)
             k == Min(n, Len(c))
             rest == Drop(c, k)
         IN  [data |-> Take(c, k),
              err |-> "nil",
              r |-> [r EXCEPT !.src = IF r.srckind = "stream" /\ rest # <<>>
                                      THEN <<rest>> \o Tail(r.src)
                                      ELSE Tail(r.src)]]

\* The(S) is the element of a one-element set.  The({e(x) : x \in {v}}) is
\* e with x bound to the value of v: the way a result is named once and used
\* several times below.
The(S) == CHOOSE x \in S : TRUE

\* bufio.Reader.Read(p), len(p) = n: at most one Read on the source, and never
\* more than what the buffer holds.
BufioRead(r, n) ==
    IF n = 0 THEN [data |-> <<>>, err |-> "nil", r |-> r]
    ELSE IF r.buf = <<>>
    THEN IF n >= r.size
         THEN SrcRead(r, n)
         ELSE The({ IF s.data = <<>>
                    THEN [data |-> <<>>, err |-> s.err, r |-> s.r]
                    ELSE [data |-> Take(s.data, Min(n, Len(s.data))),
                          err |-> "nil",
                          r |-> [s.r EXCEPT !.buf = Drop(s.data, Min(n, Len(s.data)))]] :
                    s \in {SrcRead(r, r.size)} })
    ELSE [data |-> Take(r.buf, Min(n, Len(r.buf))),
          err |-> "nil",
          r |-> [r EXCEPT !.buf = Drop(r.buf, Min(n, Len(r.buf)))]]

\* reader.Read(p) through the io.Reader interface.
Read(r, n) == IF r.kind = "bufio" THEN BufioRead(r, n) ELSE SrcRead(r, n)

\* bufio.Reader.fill on an empty buffer: reads until bytes or an error arrive.
RECURSIVE Fill(_, _)
Fill(r, i) ==
    IF i = 0 THEN [err |-> "ErrNoProgress", r |-> r]
    ELSE The({ IF s.err # "nil" THEN [err |-> s.err, r |-> s.r]
               ELSE IF s.data # <<>> THEN [err |-> "nil", r |-> [s.r EXCEPT !.buf = s.data]]
               ELSE Fill(s.r, i - 1) :
               s \in {SrcRead(r, r.size)} })

\* bufio.Reader.ReadByte.
ReadByte(r) ==
    The({ IF f.err # "nil" THEN [byte |-> 0, err |-> f.err, r |-> f.r]
          ELSE [byte |-> Head(f.r.buf), err |-> "nil",
                r |-> [f.r EXCEPT !.buf = Tail(f.r.buf)]] :
          f \in { IF r.buf # <<>> THEN [err |-> "nil", r |-> r]
                  ELSE Fill(r, maxConsecutiveEmptyReads) } })

\* io.ReadFull(r, buf), len(buf) = n: Read until n bytes are there.
RECURSIVE ReadFullFrom(_, _, _)
ReadFullFrom(r, n, acc) ==
    IF Len(acc) >= n THEN [data |-> acc, err |-> "nil", r |-> r]
    ELSE The({ IF s.err # "nil"
               THEN [data |-> acc \o s.data,
                     err |-> IF Len(acc \o s.data) >= n THEN "nil"
                             ELSE IF Len(acc \o s.data) > 0 /\ s.err = "EOF"
                             THEN "ErrUnexpectedEOF"
                             ELSE s.err,
                     r |-> s.r]
               ELSE ReadFullFrom(s.r, n, acc \o s.data) :
               s \in {Read(r, n - Len(acc))} })

ReadFull(r, n) == ReadFullFrom(r, n, <<>>)

\* binary.BigEndian on 2 and on 8 bytes.
BEUint16(bs) == bs[1] * 256 + bs[2]
BEUint64(bs) == [i \in 1..4 |-> bs[2 * i - 1] * 256 + bs[2 * i]]
BEPutUint16(v) == <<v \div 256, v % 256>>
BEPutUint64(t) == BEPutUint16(t[1]) \o BEPutUint16(t[2]) \o BEPutUint16(t[3]) \o BEPutUint16(t[4])

\* BinaryReadUint64 taking the bytes least significant first.
BinaryReadUint64_LittleEndian(r, old) ==
    The({ [val |-> IF f.err = "nil"
                   THEN BEUint64([i \in 1..8 |-> f.data[9 - i]])
                   ELSE old,
           err |-> f.err, r |-> f.r] :
          f \in {ReadFull(r, 8)} })

\* binary.Read(reader, binary.BigEndian, &u64): the value is stored only when
\* all 8 bytes were read.
BinaryReadUint64(r, old) ==
    The({ [val |-> IF f.err = "nil" THEN BEUint64(f.data) ELSE old, err |-> f.err, r |-> f.r] :
          f \in {ReadFull(r, 8)} })

BinaryReadUint16(r) ==
    The({ [val |-> IF f.err = "nil" THEN BEUint16(f.data) ELSE 0, err |-> f.err, r |-> f.r] :
          f \in {ReadFull(r, 2)} })

\* ReadUTFString, after the length strLen was read: ONE Read into a buffer of
\* that length; the whole buffer becomes the string, filled or not.
ReadUTFStringBody(r, strLen) ==
    The({ IF s.err # "nil" THEN [str |-> <<>>, err |-> s.err, r |-> s.r]
          ELSE [str |-> s.data \o Zeros(strLen - Len(s.data)), err |-> "nil", r |-> s.r] :
          s \in {Read(r, strLen)} })

\* ReadUTFString.
ReadUTFString(r) ==
    The({ IF h.err # "nil" THEN [str |-> <<>>, err |-> h.err, r |-> h.r]
          ELSE ReadUTFStringBody(h.r, h.val) :
          h \in {BinaryReadUint16(r)} })

\* strings.Split(payload, ";").
FirstSemicolon(s) ==
    CHOOSE j \in 1..Len(s) : s[j] = Semicolon /\ \A k \in 1..(j - 1) : s[k] # Semicolon

RECURSIVE Split(_)
Split(s) ==
    IF \A i \in 1..Len(s) : s[i] # Semicolon THEN <<s>>
    ELSE The({ <<Take(s, i - 1)>> \o The({ Split(rest) : rest \in {Drop(s, i)} }) :
               i \in {FirstSemicolon(s)} })

\* strconv.Atoi on a token of fewer than 19 bytes: an optional sign, then
\* decimal digits only, at least one.  errNum is the text the error quotes
\* (the Num of the *strconv.NumError), empty when there is no such error.
IsDigit(ch) == ch >= 48 /\ ch <= 57

RECURSIVE DigitsValue(_, _)
DigitsValue(s, n) ==
    IF s = <<>> THEN n ELSE DigitsValue(Tail(s), n * 10 + (Head(s) - 48))

Atoi(s) ==
    LET signed == s # <<>> /\ (s[1] = 45 \/ s[1] = 43)
        digits == IF signed THEN Tail(s) ELSE s
        ok == digits # <<>> /\ \A i \in 1..Len(digits) : IsDigit(digits[i])
    IN  IF ~ok THEN [val |-> 0, err |-> "number", errNum |-> s]
        ELSE [val |-> IF s[1] = 45 THEN 0 - DigitsValue(digits, 0) ELSE DigitsValue(digits, 0),
              err |-> "nil", errNum |-> <<>>]

(***************************************************************************)
(* Response, and its zero value (var resp Response).                       *)
(***************************************************************************)
NilSlice == [isNil |-> TRUE, elems |-> <<>>]
Slice(s) == [isNil |-> FALSE, elems |-> s]

ZeroResponse ==
    [Timestamp |-> <<0, 0, 0, 0>>, ServerID |-> <<0, 0, 0, 0>>,
     GameID |-> <<>>, ServerName |-> <<>>, ProtocolVersion |-> 0,
     MCPEVersion |-> <<>>, PlayerCount |-> 0, MaxPlayers |-> 0,
     Extra |-> NilSlice]

\* AssignFields with the three numbers parsed in the order max players,
\* player count, protocol version.
AssignFields_MaxPlayersFirst(split, resp) ==
    The({ IF mp.err # "nil" THEN [err |-> mp.err, errNum |-> mp.errNum, resp |-> resp]
          ELSE IF pc.err # "nil" THEN [err |-> pc.err, errNum |-> pc.errNum, resp |-> resp]
          ELSE [err |-> pv.err, errNum |-> pv.errNum,
                resp |-> [resp EXCEPT !.GameID = split[1], !.ServerName = split[2],
                                      !.ProtocolVersion = pv.val, !.MCPEVersion = split[4],
                                      !.PlayerCount = pc.val, !.MaxPlayers = mp.val]] :
          pv \in {Atoi(split[3])}, pc \in {Atoi(split[5])}, mp \in {Atoi(split[6])} })

\* The end of ReadUnconnectedPong: the three strconv.Atoi and the fields set
\* around them, on a split of at least six tokens.
AssignFields(split, resp) ==
    The({ IF pv.err # "nil"
          THEN [err |-> pv.err, errNum |-> pv.errNum,
                resp |-> [resp EXCEPT !.GameID = split[1], !.ServerName = split[2],
                                      !.ProtocolVersion = pv.val]]
          ELSE IF pc.err # "nil"
          THEN [err |-> pc.err, errNum |-> pc.errNum,
                resp |-> [resp EXCEPT !.GameID = split[1], !.ServerName = split[2],
                                      !.ProtocolVersion = pv.val, !.MCPEVersion = split[4],
                                      !.PlayerCount = pc.val]]
          ELSE [err |-> mp.err, errNum |-> mp.errNum,
                resp |-> [resp EXCEPT !.GameID = split[1], !.ServerName = split[2],
                                      !.ProtocolVersion = pv.val, !.MCPEVersion = split[4],
                                      !.PlayerCount = pc.val, !.MaxPlayers = mp.val]] :
          pv \in {Atoi(split[3])}, pc \in {Atoi(split[5])}, mp \in {Atoi(split[6])} })

\* ParsePayload with the protocol version parsed before the tokens are
\* counted.
ParsePayload_NumberBeforeCount(payload, resp) ==
    The({ IF Len(split) >= 3 /\ Atoi(split[3]).err # "nil"
          THEN [err |-> "number", errNum |-> split[3], resp |-> resp]
          ELSE IF Len(split) < MinTokens THEN [err |-> "payload", errNum |-> <<>>, resp |-> resp]
          ELSE IF Len(split) > MinTokens
          THEN AssignFields(split, [resp EXCEPT !.Extra = Slice(Drop(split, MinTokens))])
          ELSE AssignFields(split, resp) :
          split \in {Split(payload)} })

\* ParsePayload with Extra set from six tokens on (len(split) >= 6).
ParsePayload_ExtraFromSix(payload, resp) ==
    The({ IF Len(split) < MinTokens THEN [err |-> "payload", errNum |-> <<>>, resp |-> resp]
          ELSE AssignFields(split, [resp EXCEPT !.Extra = Slice(Drop(split, MinTokens))]) :
          split \in {Split(payload)} })

\* The payload part of ReadUnconnectedPong: split, count, Extra, the fields.
ParsePayload(payload, resp) ==
    The({ IF Len(split) < MinTokens THEN [err |-> "payload", errNum |-> <<>>, resp |-> resp]
          ELSE IF Len(split) > MinTokens
          THEN AssignFields(split, [resp EXCEPT !.Extra = Slice(Drop(split, MinTokens))])
          ELSE AssignFields(split, resp) :
          split \in {Split(payload)} })

\* ReadMagicAndPayload with the last byte of the magic left out of the
\* comparison.
ReadMagicAndPayload_LastByteUnchecked(r, resp) ==
    The({ IF m.err # "nil" THEN [err |-> m.err, errNum |-> <<>>, resp |-> resp, r |-> m.r]
          ELSE IF Take(m.data \o Zeros(MagicLen - Len(m.data)), MagicLen - 1)
                    # Take(offlineMessageDataID, MagicLen - 1)
          THEN [err |-> "magic", errNum |-> <<>>, resp |-> resp, r |-> m.r]
          ELSE The({ IF p.err # "nil" THEN [err |-> p.err, errNum |-> <<>>, resp |-> resp, r |-> p.r]
                     ELSE The({ [err |-> pp.err, errNum |-> pp.errNum, resp |-> pp.resp, r |-> p.r] :
                                pp \in {ParsePayload(p.str, resp)} }) :
                     p \in {ReadUTFString(m.r)} }) :
          m \in {Read(r, MagicLen)} })

\* ReadUnconnectedPong after the server id was read: the magic, the payload.
ReadMagicAndPayload(r, resp) ==
    The({ IF m.err # "nil" THEN [err |-> m.err, errNum |-> <<>>, resp |-> resp, r |-> m.r]
          ELSE IF m.data \o Zeros(MagicLen - Len(m.data)) # offlineMessageDataID
          THEN [err |-> "magic", errNum |-> <<>>, resp |-> resp, r |-> m.r]
          ELSE The({ IF p.err # "nil" THEN [err |-> p.err, errNum |-> <<>>, resp |-> resp, r |-> p.r]
                     ELSE The({ [err |-> pp.err, errNum |-> pp.errNum, resp |-> pp.resp, r |-> p.r] :
                                pp \in {ParsePayload(p.str, resp)} }) :
                     p \in {ReadUTFString(m.r)} }) :
          m \in {Read(r, MagicLen)} })

\* ReadUnconnectedPong after the packet id was checked: the timestamp and the
\* server id, each stored as soon as it is read.
ReadTimestampAndID(r, resp) ==
    The({ IF ts.err # "nil" THEN [err |-> ts.err, errNum |-> <<>>, resp |-> resp, r |-> ts.r]
          ELSE The({ IF sid.err # "nil"
                     THEN [err |-> sid.err, errNum |-> <<>>,
                           resp |-> [resp EXCEPT !.Timestamp = ts.val], r |-> sid.r]
                     ELSE ReadMagicAndPayload(sid.r, [resp EXCEPT !.Timestamp = ts.val,
                                                                  !.ServerID = sid.val]) :
                     sid \in {BinaryReadUint64(ts.r, resp.ServerID)} }) :
          ts \in {BinaryReadUint64(r, resp.Timestamp)} })

\* ReadUnconnectedPong that clears the Response when the packet id is wrong.
ReadUnconnectedPong_ResponseCleared(r, resp) ==
    The({ IF b.err # "nil" THEN [err |-> b.err, errNum |-> <<>>, resp |-> resp, r |-> b.r]
          ELSE IF b.byte # PongID
          THEN [err |-> "packetid", errNum |-> <<>>, resp |-> ZeroResponse, r |-> b.r]
          ELSE ReadTimestampAndID(b.r, resp) :
          b \in {ReadByte(r)} })

\* ReadUnconnectedPong(reader, &resp): the error (with the text it quotes
\* when it is a number error), the Response as it is left, and the reader as
\* it is left.
ReadUnconnectedPong(r, resp) ==
    The({ IF b.err # "nil" THEN [err |-> b.err, errNum |-> <<>>, resp |-> resp, r |-> b.r]
          ELSE IF b.byte # PongID THEN [err |-> "packetid", errNum |-> <<>>, resp |-> resp, r |-> b.r]
          ELSE ReadTimestampAndID(b.r, resp) :
          b \in {ReadByte(r)} })

(***************************************************************************)
(* Writers.  A writer is a record                                          *)
(*   buf     the bytes written to it so far                                *)
(*   calls   how many Write calls it has had                               *)
(*   failAt  which Write call fails (0: none does)                         *)
(*   partial how many bytes the failing call still writes                  *)
(***************************************************************************)
NewBuffer == [buf |-> <<>>, calls |-> 0, failAt |-> 0, partial |-> 0]
FailingWriter(k, n) == [buf |-> <<>>, calls |-> 0, failAt |-> k, partial |-> n]

\* writer.Write(p).
WriterWrite(w, p) ==
    IF w.failAt = w.calls + 1
    THEN [err |-> "write",
          w |-> [w EXCEPT !.calls = @ + 1, !.buf = @ \o Take(p, Min(w.partial, Len(p)))]]
    ELSE [err |-> "nil", w |-> [w EXCEPT !.calls = @ + 1, !.buf = @ \o p]]

\* WriteUnconnectedPing with the error of the timestamp's write dropped.
WriteUnconnectedPing_TimestampErrorDropped(w, timestamp) ==
    The({ IF a.err # "nil" THEN a
          ELSE The({ WriterWrite(b.w, offlineMessageDataID) :
                     b \in {WriterWrite(a.w, BEPutUint64(timestamp))} }) :
          a \in {WriterWrite(w, <<PingID>>)} })

\* WriteUnconnectedPing(writer, timestamp): three writes, each binary.Write
\* being one Write of the encoded value; the error and the writer as it is
\* left.
WriteUnconnectedPing(w, timestamp) ==
    The({ IF a.err # "nil" THEN a
          ELSE The({ IF b.err # "nil" THEN b
                     ELSE WriterWrite(b.w, offlineMessageDataID) :
                     b \in {WriterWrite(a.w, BEPutUint64(timestamp))} }) :
          a \in {WriterWrite(w, <<PingID>>)} })

\* WriteUnconnectedPingPacket on a connection that accepts the write: the
\* packet is written to a new bytes.Buffer, whose bytes are the one datagram
\* sent.
WriteUnconnectedPingPacket(timestamp) == WriteUnconnectedPing(NewBuffer, timestamp).w.buf

(***************************************************************************)
(* Bounds of the model.                                                    *)
(***************************************************************************)
MaxTimeout == 2
MaxResend == 3
MaxDatagrams == 2
MaxExtra == 2

\* The clock runs one unit past the latest deadline.
MaxTime == MaxTimeout + 1

(***************************************************************************)
(* Inputs: pong packets built the way the tests build them, with the       *)
(* values they were built from kept beside the bytes.                      *)
(***************************************************************************)
RECURSIVE Join(_)
Join(toks) ==
    IF toks = <<>> THEN <<>>
    ELSE IF Len(toks) = 1 THEN toks[1]
    ELSE toks[1] \o <<Semicolon>> \o Join(Tail(toks))

\* writeUTFString of the tests, with the length written chosen freely.
WriteUTFStringLen(n, str) == BEPutUint16(n) \o str
WriteUTFString(str) == WriteUTFStringLen(Len(str), str)

\* Text tokens: "MCPE", "Srv", "1.2", "E" and the empty token.
tokGame == <<77, 67, 80, 69>>
tokName == <<83, 114, 118>>
tokVersion == <<49, 46, 50>>
tokE == <<69>>
ExtraTokens == {tokE, <<>>, tokName}

\* Numeric tokens with what they mean: "0", "42", "-7", "", "1x".
NumTokens ==
    { [text |-> <<48>>, ok |-> TRUE, val |-> 0],
      [text |-> <<52, 50>>, ok |-> TRUE, val |-> 42],
      [text |-> <<45, 55>>, ok |-> TRUE, val |-> 0 - 7],
      [text |-> <<>>, ok |-> FALSE, val |-> 0],
      [text |-> <<49, 120>>, ok |-> FALSE, val |-> 0] }

RECURSIVE SeqsUpTo(_, _)
SeqsUpTo(S, n) ==
    IF n = 0 THEN {<<>>}
    ELSE LET shorter == SeqsUpTo(S, n - 1)
         IN  shorter \cup {Append(q, x) : q \in shorter, x \in S}

Extras == SeqsUpTo(ExtraTokens, MaxExtra)

\* uint64 values as four 16-bit limbs.
Timestamps == {<<0, 0, 0, 0>>, <<1, 515, 65535, 258>>, <<65535, 65535, 65535, 65535>>}
ServerIDs == {<<0, 0, 0, 9>>, <<32768, 0, 7, 256>>}

badMagicLast == [offlineMessageDataID EXCEPT ![16] = 121]
badMagicFirst == [offlineMessageDataID EXCEPT ![1] = 1]
badMagicMid == [offlineMessageDataID EXCEPT ![9] = 0]
Magics == {offlineMessageDataID, badMagicLast, badMagicFirst, badMagicMid}

\* What a pong is built from: mk.toks are the payload's tokens, mk.nums the
\* numeric tokens at positions 2, 4 and 5 when there are at least 6 tokens.
Built(id, ts, sid, magic, toks, nums) ==
    [id |-> id, ts |-> ts, sid |-> sid, magic |-> magic, toks |-> toks, nums |-> nums]

PongBytes(mk) ==
    <<mk.id>> \o BEPutUint64(mk.ts) \o BEPutUint64(mk.sid) \o mk.magic
        \o WriteUTFString(Join(mk.toks))

SixTokens(p, c, m) == <<tokGame, tokName, p.text, tokVersion, c.text, m.text>>

noNums == <<>>

\* Payloads of at least six tokens, every numeric token and every extra.
BuiltFull ==
    { Built(PongID, ts, sid, offlineMessageDataID, SixTokens(p, c, m) \o ex, <<p, c, m>>) :
        ts \in {<<1, 515, 65535, 258>>}, sid \in {<<32768, 0, 7, 256>>},
        p \in NumTokens, c \in NumTokens, m \in NumTokens, ex \in Extras }

\* Headers of every kind in front of a few payloads.
zeroNum == [text |-> <<48>>, ok |-> TRUE, val |-> 0]
BuiltHeaders ==
    { Built(id, ts, sid, magic, SixTokens(zeroNum, zeroNum, zeroNum) \o ex, <<zeroNum, zeroNum, zeroNum>>) :
        id \in {PongID, PingID, 0}, ts \in Timestamps, sid \in ServerIDs,
        magic \in Magics, ex \in {<<>>, <<tokE, tokName>>} }

\* Payloads of fewer than six tokens, the numeric ones valid or not; no token
\* at all is the empty payload.
oneX == [text |-> <<49, 120>>, ok |-> FALSE, val |-> 0]
BuiltShort ==
    { Built(PongID, <<0, 0, 0, 1>>, <<0, 0, 0, 9>>, offlineMessageDataID,
            Take(SixTokens(p, p, p), k), noNums) : k \in 0..5, p \in {zeroNum, oneX} }

AllBuilt == BuiltFull \cup BuiltHeaders \cup BuiltShort

\* bufio.NewReader(source), bufio.NewReaderSize(source, size), and the source
\* itself as an io.Reader.
NewReaderSize(src, srckind, size) ==
    [kind |-> "bufio", size |-> IF size < minReadBufferSize THEN minReadBufferSize ELSE size,
     buf |-> <<>>, src |-> src, srckind |-> srckind, starved |-> FALSE]
NewReader(src, srckind) == NewReaderSize(src, srckind, defaultBufSize)
RawReader(src, srckind) ==
    [kind |-> "raw", size |-> 0, buf |-> <<>>, src |-> src, srckind |-> srckind, starved |-> FALSE]

ReaderSizes == {minReadBufferSize, 56, defaultBufSize}
SrcKinds == {"stream", "dgram"}

\* The cuts of a packet: delivered in one piece, cut short after k bytes, or
\* in two pieces.  An empty first piece is an empty datagram; a stream has
\* none.
CutPoints(bytes) == {0, 1, 5, 9, 17, 20, 33, 34, 35, 36, Len(bytes) - 1} \cap 0..(Len(bytes) - 1)
Deliveries(bytes, srckind) ==
    {<<bytes>>}
        \cup {<<Take(bytes, k)>> : k \in CutPoints(bytes) \ {0}}
        \cup {<<Take(bytes, k), Drop(bytes, k)>> :
                 k \in CutPoints(bytes) \ (IF srckind = "stream" THEN {0} ELSE {})}

cutSample == Built(PongID, <<1, 515, 65535, 258>>, <<0, 0, 0, 9>>, offlineMessageDataID,
                   SixTokens(zeroNum, zeroNum, zeroNum) \o <<tokE>>, <<zeroNum, zeroNum, zeroNum>>)

\* The packets delivered in pieces: the sample, and the sample with another
\* packet id and with a magic block that is not the constant.
cutSamples ==
    {cutSample, [cutSample EXCEPT !.id = PingID], [cutSample EXCEPT !.magic = badMagicLast]}

\* A Response that an earlier decode filled, and the Responses handed to the
\* decoder.
UsedResponse ==
    [Timestamp |-> <<9, 9, 9, 9>>, ServerID |-> <<7, 7, 7, 7>>,
     GameID |-> tokE, ServerName |-> tokGame, ProtocolVersion |-> 5,
     MCPEVersion |-> tokE, PlayerCount |-> 3, MaxPlayers |-> 99,
     Extra |-> Slice(<<tokE>>)]
Responses == {ZeroResponse, UsedResponse}

\* A codec input: the function called, the reader or the writer handed to
\* it, the Response handed to it, and what the reader's bytes were built
\* from.
PongInputs ==
    { [fn |-> "ReadUnconnectedPong", r |-> NewReaderSize(<<PongBytes(mk)>>, sk, size),
       w |-> NewBuffer, resp |-> rsp, mk |-> mk] :
        mk \in AllBuilt, sk \in SrcKinds, size \in ReaderSizes, rsp \in Responses }
    \cup
    UNION { { [fn |-> "ReadUnconnectedPong", r |-> NewReader(d, sk),
               w |-> NewBuffer, resp |-> rsp, mk |-> mk] :
                d \in Deliveries(PongBytes(mk), sk), rsp \in Responses } :
            sk \in SrcKinds, mk \in cutSamples }

\* Length-prefixed strings: the length written, the bytes that follow it, and
\* how they are delivered.
UTFTexts == {<<>>, <<97>>, <<97, 59, 98>>, tokGame}
UTFReaders(d, sk) ==
    {RawReader(d, sk), NewReader(d, sk), NewReaderSize(d, sk, minReadBufferSize)}
UTFInputs ==
    UNION { { [fn |-> "ReadUTFString", r |-> rd, w |-> NewBuffer, resp |-> ZeroResponse,
               mk |-> Built(0, <<0, 0, 0, 0>>, <<0, 0, 0, 0>>, <<>>, <<str>>, <<n>>)] :
                rd \in UNION { UNION { UTFReaders(d, sk) :
                                         d \in Deliveries(WriteUTFStringLen(n, str), sk) \cup {<<>>} } :
                                 sk \in SrcKinds } } :
            n \in 0..5, str \in UTFTexts }

\* A text longer than the smallest bufio buffer, written whole and handed
\* over in one piece.
longText == [i \in 1..20 |-> 96 + i]
LongUTFInputs ==
    { [fn |-> "ReadUTFString", r |-> rd, w |-> NewBuffer, resp |-> ZeroResponse,
       mk |-> Built(0, <<0, 0, 0, 0>>, <<0, 0, 0, 0>>, <<>>, <<longText>>, <<Len(longText)>>)] :
        rd \in UTFReaders(<<WriteUTFString(longText)>>, "stream") }

\* Pings: every timestamp, on a bytes.Buffer and on writers whose first,
\* second or third Write fails; mk is the pong the peer answers with, apart
\* from its timestamp.
PingTimestamps ==
    Timestamps \cup {<<0, 0, 0, 1>>, <<32768, 0, 0, 0>>, <<255, 256, 0, 65280>>}
Writers == {NewBuffer} \cup {FailingWriter(k, n) : k \in 1..3, n \in 0..1}
PingInputs ==
    { [fn |-> "WriteUnconnectedPing", r |-> RawReader(<<>>, "stream"), w |-> w, resp |-> rsp,
       mk |-> [cutSample EXCEPT !.ts = t]] :
        t \in PingTimestamps, w \in Writers, rsp \in Responses }

(***************************************************************************)
(* Datagrams the peer may send to the socket of a Query.                   *)
(***************************************************************************)
dgGood == PongBytes(cutSample)
dgBadMagic == PongBytes([cutSample EXCEPT !.magic = badMagicLast])
dgHead == Take(dgGood, 5)
Datagrams == {dgGood, dgBadMagic, dgHead}

(***************************************************************************)
(* State.                                                                  *)
(*   Query: mainpc is where Query is, gpc where the resend goroutine is,   *)
(*   now the clock (Query is called at 0), timeout and resend its          *)
(*   arguments, tickerStart when the ticker was made, tickC whether        *)
(*   ticker.C holds a tick, cancelled whether cancel() ran, conn the       *)
(*   socket ("none", "open", "closed"), inbox the datagrams that arrived   *)
(*   and were not read, arrivals how many arrived, got the datagrams the   *)
(*   reads returned, resp and retErr what Query returns, wire the pings    *)
(*   written, each with whether the decode had already succeeded,          *)
(*   writeFailed whether a resend write failed before Query returned.      *)
(*   Codec: input is what the function is called with, op which function   *)
(*   was called ("pong", "utf", "ping", and "echo" for the decode of the   *)
(*   pong that answers a written ping), out what it returned and left.     *)
(***************************************************************************)
VARIABLES mainpc, gpc, now, timeout, resend, tickerStart, tickC, cancelled, conn,
          inbox, arrivals, got, resp, retErr, wire, writeFailed, input, op, out

vars == <<mainpc, gpc, now, timeout, resend, tickerStart, tickC, cancelled, conn,
          inbox, arrivals, got, resp, retErr, wire, writeFailed, input, op, out>>

queryVars == <<mainpc, gpc, now, timeout, resend, tickerStart, tickC, cancelled, conn,
               inbox, arrivals, got, resp, retErr, wire, writeFailed>>
codecVars == <<input, op, out>>

noInput ==
    [fn |-> "none", r |-> RawReader(<<>>, "stream"), w |-> NewBuffer, resp |-> ZeroResponse,
     mk |-> Built(0, <<0, 0, 0, 0>>, <<0, 0, 0, 0>>, <<>>, <<>>, <<>>)]
noOutput ==
    [err |-> "nil", errNum |-> <<>>, resp |-> ZeroResponse, str |-> <<>>,
     r |-> RawReader(<<>>, "stream"), w |-> NewBuffer]

\* deadline := time.Now().Add(timeout), Query being called at time 0.
deadline == timeout

\* <-ctx.Done() is ready: the context's deadline passed or cancel() ran.
ctxDone == cancelled \/ now >= deadline

\* The decode Query runs on the datagrams its reads returned so far:
\* bufio.NewReader(conn), then ReadUnconnectedPong(reader, &resp).
Decode == ReadUnconnectedPong(NewReader(got, "dgram"), ZeroResponse)

\* The decode is inside a conn.Read that found no datagram.
Blocked == Decode.r.starved

\* ReadUnconnectedPong has returned nil inside Query.
DecodedOK ==
    \/ mainpc = "select"
    \/ mainpc \in {"defer_cancel", "defer_close", "returned"} /\ retErr = "nil" /\ got # <<>>

(***************************************************************************)
(* Query, the main path.                                                   *)
(***************************************************************************)
\* net.DialTimeout: the socket, or an error and Query returns.
MainDial ==
    /\ mainpc = "dial"
    /\ \/ conn' = "open" /\ mainpc' = "setdeadline" /\ UNCHANGED retErr
       \/ conn' = "none" /\ mainpc' = "returned" /\ retErr' = "dial"
    /\ UNCHANGED <<gpc, now, timeout, resend, tickerStart, tickC, cancelled,
                   inbox, arrivals, got, resp, wire, writeFailed, input, op, out>>

\* MainSetDeadline with conn.Close() deferred only after SetDeadline succeeded.
MainSetDeadline_CloseDeferredLate ==
    /\ mainpc = "setdeadline"
    /\ \/ mainpc' = "spawn" /\ UNCHANGED retErr
       \/ mainpc' = "returned" /\ retErr' = "setdeadline"
    /\ UNCHANGED <<gpc, now, timeout, resend, tickerStart, tickC, cancelled, conn,
                   inbox, arrivals, got, resp, wire, writeFailed, input, op, out>>

\* defer conn.Close(); conn.SetDeadline(deadline): on an error Query returns,
\* which runs the deferred Close.
MainSetDeadline ==
    /\ mainpc = "setdeadline"
    /\ \/ mainpc' = "spawn" /\ UNCHANGED retErr
       \/ mainpc' = "defer_close" /\ retErr' = "setdeadline"
    /\ UNCHANGED <<gpc, now, timeout, resend, tickerStart, tickC, cancelled, conn,
                   inbox, arrivals, got, resp, wire, writeFailed, input, op, out>>

\* context.WithDeadline, defer cancel(), time.NewTicker(resend), go func().
\* No ping is written here.
MainSpawn ==
    /\ mainpc = "spawn"
    /\ mainpc' = "read"
    /\ gpc' = "select"
    /\ tickerStart' = now
    /\ UNCHANGED <<now, timeout, resend, tickC, cancelled, conn, inbox, arrivals,
                   got, resp, retErr, wire, writeFailed, input, op, out>>

\* A conn.Read inside the decode returns the next datagram.
MainRecv ==
    /\ mainpc = "read"
    /\ Blocked
    /\ now < deadline
    /\ inbox # <<>>
    /\ got' = Append(got, Head(inbox))
    /\ inbox' = Tail(inbox)
    /\ UNCHANGED <<mainpc, gpc, now, timeout, resend, tickerStart, tickC, cancelled,
                   conn, arrivals, resp, retErr, wire, writeFailed, input, op, out>>

\* MainTimeout with only a write deadline set on the socket: a read never
\* times out.
MainTimeout_WriteDeadlineOnly ==
    /\ mainpc = "read"
    /\ Blocked
    /\ FALSE
    /\ UNCHANGED vars

\* A conn.Read inside the decode fails at the deadline: ReadUnconnectedPong
\* returns the timeout and Query returns resp, err.
MainTimeout ==
    /\ mainpc = "read"
    /\ Blocked
    /\ now >= deadline
    /\ resp' = Decode.resp
    /\ retErr' = Decode.err
    /\ mainpc' = "defer_cancel"
    /\ UNCHANGED <<gpc, now, timeout, resend, tickerStart, tickC, cancelled, conn,
                   inbox, arrivals, got, wire, writeFailed, input, op, out>>

\* ReadUnconnectedPong returns without needing another datagram: with an
\* error Query returns resp, err; without, it goes on to the select.
MainDecoded ==
    /\ mainpc = "read"
    /\ ~Blocked
    /\ resp' = Decode.resp
    /\ retErr' = Decode.err
    /\ mainpc' = IF Decode.err = "nil" THEN "select" ELSE "defer_cancel"
    /\ UNCHANGED <<gpc, now, timeout, resend, tickerStart, tickC, cancelled, conn,
                   inbox, arrivals, got, wire, writeFailed, input, op, out>>

\* select { case err := <-errs: ...; default: return resp, nil }: errs is a
\* nil channel (var errs chan error, never made), a receive from it is never
\* ready, the default case runs.
MainSelect ==
    /\ mainpc = "select"
    /\ retErr' = "nil"
    /\ mainpc' = "defer_cancel"
    /\ UNCHANGED <<gpc, now, timeout, resend, tickerStart, tickC, cancelled, conn,
                   inbox, arrivals, got, resp, wire, writeFailed, input, op, out>>

\* The deferred cancel().
MainDeferCancel ==
    /\ mainpc = "defer_cancel"
    /\ cancelled' = TRUE
    /\ mainpc' = "defer_close"
    /\ UNCHANGED <<gpc, now, timeout, resend, tickerStart, tickC, conn, inbox,
                   arrivals, got, resp, retErr, wire, writeFailed, input, op, out>>

\* The deferred conn.Close(); Query has returned.
MainDeferClose ==
    /\ mainpc = "defer_close"
    /\ conn' = "closed"
    /\ mainpc' = "returned"
    /\ UNCHANGED <<gpc, now, timeout, resend, tickerStart, tickC, cancelled, inbox,
                   arrivals, got, resp, retErr, wire, writeFailed, input, op, out>>

Main ==
    \/ MainDial
    \/ MainSetDeadline
    \/ MainSpawn
    \/ MainRecv
    \/ MainTimeout
    \/ MainDecoded
    \/ MainSelect
    \/ MainDeferCancel
    \/ MainDeferClose

(***************************************************************************)
(* The resend goroutine.                                                   *)
(***************************************************************************)
\* case <-ctx.Done(): return
GSelectDone ==
    /\ gpc = "select"
    /\ ctxDone
    /\ gpc' = "exited"
    /\ UNCHANGED <<mainpc, now, timeout, resend, tickerStart, tickC, cancelled, conn,
                   inbox, arrivals, got, resp, retErr, wire, writeFailed, input, op, out>>

\* case <-ticker.C: (select takes any ready case)
GSelectTick ==
    /\ gpc = "select"
    /\ tickC
    /\ tickC' = FALSE
    /\ gpc' = "write"
    /\ UNCHANGED <<mainpc, now, timeout, resend, tickerStart, cancelled, conn,
                   inbox, arrivals, got, resp, retErr, wire, writeFailed, input, op, out>>

\* WriteUnconnectedPingPacket(conn, 0): the write fails on a closed socket and
\* past the deadline, and may fail for the network's reasons; when it fails
\* the goroutine goes to errs <- err.
GWrite ==
    /\ gpc = "write"
    /\ \E ok \in (IF conn = "open" /\ now < deadline THEN BOOLEAN ELSE {FALSE}) :
          IF ok
          THEN /\ wire' = Append(wire, [bytes |-> WriteUnconnectedPingPacket(<<0, 0, 0, 0>>),
                                         afterDecode |-> DecodedOK])
               /\ gpc' = "select"
               /\ UNCHANGED writeFailed
          ELSE /\ gpc' = "send_errs"
               /\ writeFailed' = (writeFailed \/ mainpc # "returned")
               /\ UNCHANGED wire
    /\ UNCHANGED <<mainpc, now, timeout, resend, tickerStart, tickC, cancelled, conn,
                   inbox, arrivals, got, resp, retErr, input, op, out>>

\* errs <- err on the nil channel errs blocks forever: gpc = "send_errs" has
\* no step.
Goroutine ==
    \/ GSelectDone
    \/ GSelectTick
    \/ GWrite

(***************************************************************************)
(* The clock and the network.                                              *)
(***************************************************************************)
\* Time passes; the ticker, once made, puts a tick in ticker.C (which holds
\* one) every resend.  The ticker is never stopped.  The clock is followed
\* while Query or the goroutine can still take a step.
Advance ==
    /\ mainpc \notin {"idle", "returned"} \/ gpc \in {"select", "write"}
    /\ now < MaxTime
    /\ now' = now + 1
    /\ tickC' = (tickC \/ (gpc # "none" /\ (now' - tickerStart) % resend = 0))
    /\ UNCHANGED <<mainpc, gpc, timeout, resend, tickerStart, cancelled, conn,
                   inbox, arrivals, got, resp, retErr, wire, writeFailed, input, op, out>>

\* A datagram from the peer reaches the open socket while Query is in the
\* decode (one that came earlier waits in the socket's buffer until then,
\* one that comes later is never read).
Arrive ==
    /\ conn = "open"
    /\ mainpc = "read"
    /\ arrivals < MaxDatagrams
    /\ \E d \in Datagrams : inbox' = Append(inbox, d)
    /\ arrivals' = arrivals + 1
    /\ UNCHANGED <<mainpc, gpc, now, timeout, resend, tickerStart, tickC, cancelled,
                   conn, got, resp, retErr, wire, writeFailed, input, op, out>>

\* Query(address, timeout, resend) is called: resend > 0, as time.NewTicker
\* requires.
Init ==
    /\ mainpc = "dial"
    /\ gpc = "none"
    /\ now = 0
    /\ timeout \in 1..MaxTimeout
    /\ resend \in 1..MaxResend
    /\ tickerStart = 0
    /\ tickC = FALSE
    /\ cancelled = FALSE
    /\ conn = "none"
    /\ inbox = <<>>
    /\ arrivals = 0
    /\ got = <<>>
    /\ resp = ZeroResponse
    /\ retErr = "nil"
    /\ wire = <<>>
    /\ writeFailed = FALSE
    /\ input = noInput
    /\ op = "none"
    /\ out = noOutput

Next ==
    \/ Main
    \/ Goroutine
    \/ Advance
    \/ Arrive

Spec == Init /\ [][Next]_vars

\* The scheduler runs Query and the goroutine when they can run, and time
\* passes.
FairSpec ==
    /\ Init
    /\ [][Next]_vars
    /\ WF_vars(Main)
    /\ WF_vars(Goroutine)
    /\ WF_vars(Advance)

(***************************************************************************)
(* The codec functions called on their own.                                *)
(***************************************************************************)
CallReadUnconnectedPong ==
    /\ op = "none"
    /\ input.fn = "ReadUnconnectedPong"
    /\ LET d == ReadUnconnectedPong(input.r, input.resp)
       IN  out' = [noOutput EXCEPT !.err = d.err, !.errNum = d.errNum, !.resp = d.resp, !.r = d.r]
    /\ op' = "pong"
    /\ UNCHANGED <<input, queryVars>>

CallReadUTFString ==
    /\ op = "none"
    /\ input.fn = "ReadUTFString"
    /\ LET u == ReadUTFString(input.r)
       IN  out' = [noOutput EXCEPT !.err = u.err, !.str = u.str, !.r = u.r]
    /\ op' = "utf"
    /\ UNCHANGED <<input, queryVars>>

CallWriteUnconnectedPing ==
    /\ op = "none"
    /\ input.fn = "WriteUnconnectedPing"
    /\ LET p == WriteUnconnectedPing(input.w, input.mk.ts)
       IN  out' = [noOutput EXCEPT !.err = p.err, !.w = p.w]
    /\ op' = "ping"
    /\ UNCHANGED <<input, queryVars>>

\* The pong that answers a ping: the ping's timestamp bytes (offsets 1..8)
\* at offsets 1..8 of the pong built from mk.
EchoPong(ping, mk) ==
    <<mk.id>> \o SubSeq(ping, 2, 9) \o Drop(PongBytes(mk), 9)

\* ReadUnconnectedPong on the pong that answers the ping just written.
CallReadUnconnectedPongEcho ==
    /\ op = "ping"
    /\ out.err = "nil"
    /\ LET d == ReadUnconnectedPong(NewReader(<<EchoPong(out.w.buf, input.mk)>>, "dgram"), input.resp)
       IN  out' = [out EXCEPT !.err = d.err, !.errNum = d.errNum, !.resp = d.resp, !.r = d.r]
    /\ op' = "echo"
    /\ UNCHANGED <<input, queryVars>>

CodecInit ==
    /\ mainpc = "idle"
    /\ gpc = "none"
    /\ now = 0
    /\ timeout = 1
    /\ resend = 1
    /\ tickerStart = 0
    /\ tickC = FALSE
    /\ cancelled = FALSE
    /\ conn = "none"
    /\ inbox = <<>>
    /\ arrivals = 0
    /\ got = <<>>
    /\ resp = ZeroResponse
    /\ retErr = "nil"
    /\ wire = <<>>
    /\ writeFailed = FALSE
    /\ input \in PongInputs \cup UTFInputs \cup LongUTFInputs \cup PingInputs
    /\ op = "none"
    /\ out = noOutput

CodecNext ==
    \/ CallReadUnconnectedPong
    \/ CallReadUTFString
    \/ CallWriteUnconnectedPing
    \/ CallReadUnconnectedPongEcho

CodecSpec == CodecInit /\ [][CodecNext]_vars

(***************************************************************************)
(* Properties.                                                             *)
(***************************************************************************)
RECURSIVE Flatten(_)
Flatten(chunks) == IF chunks = <<>> THEN <<>> ELSE Head(chunks) \o Flatten(Tail(chunks))

\* The reader holds the pong built from mk in one piece, and one read of the
\* bufio buffer takes all of it.
WholePong(inp) ==
    /\ inp.r.kind = "bufio"
    /\ inp.r.src = <<PongBytes(inp.mk)>>
    /\ Len(PongBytes(inp.mk)) <= inp.r.size

\* A pong with the right id and magic, at least six tokens, tokens 2, 4 and 5
\* valid decimals.
ValidPong(mk) ==
    /\ mk.id = PongID
    /\ mk.magic = offlineMessageDataID
    /\ Len(mk.toks) >= MinTokens
    /\ \A i \in 1..3 : mk.nums[i].ok

\* C1: ReadUnconnectedPong on a whole valid pong returns no error, Timestamp
\* and ServerID are the header's values, the six fields are tokens 0..5 in
\* order (the numeric ones parsed), Extra is tokens 6..n-1 in order when
\* n > 6 and left as it was handed in when n = 6: nil in a new Response.
C1_PongDecoded ==
    (op = "pong" /\ WholePong(input) /\ ValidPong(input.mk)) =>
        /\ out.err = "nil"
        /\ out.resp.Timestamp = input.mk.ts
        /\ out.resp.ServerID = input.mk.sid
        /\ out.resp.GameID = input.mk.toks[1]
        /\ out.resp.ServerName = input.mk.toks[2]
        /\ out.resp.ProtocolVersion = input.mk.nums[1].val
        /\ out.resp.MCPEVersion = input.mk.toks[4]
        /\ out.resp.PlayerCount = input.mk.nums[2].val
        /\ out.resp.MaxPlayers = input.mk.nums[3].val
        /\ out.resp.Extra = IF Len(input.mk.toks) > MinTokens
                            THEN Slice(Drop(input.mk.toks, MinTokens))
                            ELSE input.resp.Extra
        /\ (input.resp = ZeroResponse /\ Len(input.mk.toks) = MinTokens)
               => out.resp.Extra = NilSlice

C1_Witness ==
    /\ op = "pong"
    /\ WholePong(input)
    /\ ValidPong(input.mk)
    /\ Len(input.mk.toks) = MinTokens + 2
    /\ input.mk.nums[2].val = 42
    /\ out.err = "nil"
    /\ out.resp.Extra.elems = <<tokE, <<>>>>

\* C2: when Query returns an error, no field of the Response it returns was
\* set from the reply.
C2_NoPartialResponse ==
    (mainpc = "returned" /\ retErr # "nil") => resp = ZeroResponse

\* C3: when Query is at its receive, a ping was already written.
C3_PingBeforeReceive ==
    mainpc = "read" => Len(wire) >= 1

\* C4: when no datagram ever arrives, Query, once at its receive, returns,
\* and returns the timeout error.
C4_QueryTimesOut ==
    (mainpc = "read" /\ arrivals = 0)
        ~> (arrivals > 0 \/ (mainpc = "returned" /\ retErr = "timeout"))

C4_Witness ==
    /\ mainpc = "returned"
    /\ retErr = "timeout"
    /\ arrivals = 0
    /\ Len(wire) >= 1
    /\ writeFailed
    /\ resend < timeout

\* C5: a Query during which a resend write failed returns a non-nil error.
C5_WriteErrorReported ==
    (mainpc = "returned" /\ writeFailed) => retErr # "nil"

\* C6: once the deadline is reached or Query has returned, the resend
\* goroutine, if it was started, eventually exits.
C6_GoroutineExits ==
    (gpc # "none" /\ (now >= deadline \/ mainpc = "returned")) ~> (gpc = "exited")

\* C7: no ping is written after ReadUnconnectedPong returned nil in Query.
C7_NoWriteAfterDecode ==
    \A i \in 1..Len(wire) : ~wire[i].afterDecode

\* C8: the reads of one Query take at most one datagram from the socket.
C8_OneDatagram ==
    Len(got) <= 1

\* C9: ReadUTFString, having read a length L > 0 and then being delivered
\* fewer than L bytes, returns an error.
C9_ShortStringFails ==
    (/\ op = "utf"
     /\ Len(Flatten(input.r.src)) >= 2
     /\ BEUint16(Flatten(input.r.src)) > 0
     /\ Len(Flatten(input.r.src)) - 2 < BEUint16(Flatten(input.r.src)))
        => out.err # "nil"

\* C10: when Query has returned and had opened the socket, the socket is
\* closed; and the socket is closed only once Query has returned.
C10_SocketClosed ==
    /\ (mainpc = "returned" /\ retErr # "dial") => conn = "closed"
    /\ conn = "closed" => mainpc = "returned"

C10_Witness ==
    /\ mainpc = "returned"
    /\ conn = "closed"
    /\ retErr = "setdeadline"

\* C11: WriteUnconnectedPing on a writer that does not fail returns nil and
\* has written exactly 25 bytes: 0x01, the timestamp as 8 big-endian bytes,
\* the 16-byte magic; on a writer one of whose writes fails it returns that
\* write's error and writes no more.
C11_PingWritten ==
    op = "ping" =>
        /\ input.w.failAt = 0 =>
              /\ out.err = "nil"
              /\ Len(out.w.buf) = 25
              /\ out.w.buf[1] = 1
              /\ \A i \in 2..9 : out.w.buf[i] \in 0..255
              /\ BEUint64(SubSeq(out.w.buf, 2, 9)) = input.mk.ts
              /\ SubSeq(out.w.buf, 10, 25) =
                     <<0, 255, 255, 0, 254, 254, 254, 254, 253, 253, 253, 253, 18, 52, 86, 120>>
        /\ input.w.failAt \in 1..3 =>
              /\ out.err = "write"
              /\ out.w.calls = input.w.failAt

C11_Witness ==
    /\ op = "ping"
    /\ input.w.failAt = 0
    /\ input.mk.ts = <<1, 515, 65535, 258>>
    /\ out.err = "nil"
    /\ SubSeq(out.w.buf, 1, 9) = <<1, 0, 1, 2, 3, 255, 255, 1, 2>>

\* C12: ReadUnconnectedPong on bytes whose first is not 0x1c returns the
\* packet-id error whatever follows, leaves the Response as it was handed
\* in, and takes no byte after the first from a stream.
C12_WrongPacketID ==
    (op = "pong" /\ Flatten(input.r.src) # <<>> /\ Head(Flatten(input.r.src)) # PongID) =>
        /\ out.err = "packetid"
        /\ out.resp = input.resp
        /\ input.r.srckind = "stream" =>
               out.r.buf \o Flatten(out.r.src) = Tail(Flatten(input.r.src))

C12_Witness ==
    /\ op = "pong"
    /\ input.mk.id = PingID
    /\ input.mk.magic = badMagicLast
    /\ input.resp = UsedResponse
    /\ out.err = "packetid"
    /\ out.resp = UsedResponse

\* C13: ReadUnconnectedPong on a pong with id 0x1c whose magic block is not
\* the constant never returns nil; handed the whole packet (in one piece, or
\* as a stream that delivers all of it) it returns the invalid-magic error,
\* whatever the payload.
C13_BadMagic ==
    (op = "pong" /\ input.mk.id = PongID /\ input.mk.magic # offlineMessageDataID) =>
        /\ out.err # "nil"
        /\ WholePong(input) => out.err = "magic"
        /\ (input.r.srckind = "stream" /\ Flatten(input.r.src) = PongBytes(input.mk))
               => out.err = "magic"

C13_Witness ==
    /\ op = "pong"
    /\ input.mk.id = PongID
    /\ input.mk.magic = badMagicMid
    /\ WholePong(input)
    /\ Len(input.mk.toks) = MinTokens + 2
    /\ out.err = "magic"

\* C14: ReadUnconnectedPong on a whole pong with a valid header whose payload
\* has fewer than 6 tokens (the empty payload included) returns the
\* malformed-payload error, not a number error, and sets no field from the
\* payload.
C14_ShortPayload ==
    (/\ op = "pong"
     /\ WholePong(input)
     /\ input.mk.id = PongID
     /\ input.mk.magic = offlineMessageDataID
     /\ Len(input.mk.toks) < MinTokens)
        => /\ out.err = "payload"
           /\ out.errNum = <<>>
           /\ out.resp = [input.resp EXCEPT !.Timestamp = input.mk.ts,
                                            !.ServerID = input.mk.sid]

C14_Witness ==
    /\ op = "pong"
    /\ WholePong(input)
    /\ input.mk.id = PongID
    /\ input.mk.magic = offlineMessageDataID
    /\ Len(input.mk.toks) = MinTokens - 1
    /\ input.mk.toks[3] = oneX.text
    /\ out.err = "payload"

\* C15: ReadUnconnectedPong on a whole pong with a valid header and at least
\* 6 tokens, one of tokens 2, 4, 5 not a valid decimal, returns a number
\* error, and the error is the one of the first such token in the order
\* 2, 4, 5.
C15_InvalidNumber ==
    (/\ op = "pong"
     /\ WholePong(input)
     /\ input.mk.id = PongID
     /\ input.mk.magic = offlineMessageDataID
     /\ Len(input.mk.toks) >= MinTokens
     /\ \E i \in 1..3 : ~input.mk.nums[i].ok)
        => /\ out.err = "number"
           /\ \E i \in 1..3 :
                 /\ ~input.mk.nums[i].ok
                 /\ \A j \in 1..(i - 1) : input.mk.nums[j].ok
                 /\ out.errNum = input.mk.nums[i].text

C15_Witness ==
    /\ op = "pong"
    /\ WholePong(input)
    /\ input.mk.id = PongID
    /\ input.mk.magic = offlineMessageDataID
    /\ Len(input.mk.toks) >= MinTokens
    /\ input.mk.nums[1].ok
    /\ input.mk.nums[2].text = <<>>
    /\ input.mk.nums[3].text = oneX.text
    /\ out.err = "number"
    /\ out.errNum = <<>>

\* C16: ReadUTFString on a byte stream that holds a 2-byte big-endian length
\* L, the L bytes of a text and possibly more returns the text and nil, and
\* leaves exactly what follows the text unread.
C16_StringRoundTrip ==
    (/\ op = "utf"
     /\ input.r.srckind = "stream"
     /\ input.mk.nums[1] <= Len(input.mk.toks[1])
     /\ Flatten(input.r.src) = WriteUTFStringLen(input.mk.nums[1], input.mk.toks[1]))
        => /\ out.err = "nil"
           /\ out.str = Take(input.mk.toks[1], input.mk.nums[1])
           /\ out.r.buf \o Flatten(out.r.src) = Drop(input.mk.toks[1], input.mk.nums[1])

\* C17: the 8 bytes WriteUnconnectedPing writes for a timestamp T, at
\* offsets 1..8 of an otherwise valid pong, are decoded by
\* ReadUnconnectedPong into Timestamp = T.
C17_TimestampRoundTrip ==
    op = "echo" =>
        /\ out.err = "nil"
        /\ out.resp.Timestamp = input.mk.ts

C17_Witness ==
    /\ op = "echo"
    /\ input.mk.ts = <<32768, 0, 0, 0>>
    /\ input.resp = UsedResponse
    /\ out.resp.Timestamp = <<32768, 0, 0, 0>>

====
